---- MODULE Spec2Model ----
(***************************************************************************)
(* Wordle WhatsApp League Scorer (src/app.py).                             *)
(*                                                                         *)
(* One run of the script: the season settings are read, the uploaded chat  *)
(* export is parsed line by line into first_sub (first submission per      *)
(* (name, puzzle)), the points of the season and of the report week are    *)
(* summed, the players are ranked and the report block is built.           *)
(*                                                                         *)
(* Text is a sequence of one-character strings, so that the regular        *)
(* expressions, strptime, int(), strip(), lower() and isoformat() are      *)
(* computed character by character.  A date is its proleptic Gregorian     *)
(* ordinal (date.toordinal()), a datetime the pair <<ordinal, minute of    *)
(* the day>>.  Points are held in halves: the float p is the integer 2p;   *)
(* every value the script produces is a multiple of 0.5 far below 2^53,    *)
(* so its float sums and products are exact.                               *)
(***************************************************************************)
EXTENDS Integers, Sequences, FiniteSets, TLC

VARIABLES pc, prefer_dmy, season_start_date, season_start_puzzle, season_weeks,
          report_week, double_dates, uploaded, line, first_sub, all_players,
          players, week_points, season_points, missing_week, week_ranked,
          season_ranked, out,
          recorded     \* history: the result events the loop has handed to the ledger

vars == <<pc, prefer_dmy, season_start_date, season_start_puzzle, season_weeks,
          report_week, double_dates, uploaded, line, first_sub, all_players,
          players, week_points, season_points, missing_week, week_ranked,
          season_ranked, out, recorded>>

(***************************************************************************)
(* Characters and text                                                     *)
(***************************************************************************)
UPPERCASE == <<"A", "B", "C", "D", "E", "F", "G", "H", "I", "J", "K", "L", "M",
               "N", "O", "P", "Q", "R", "S", "T", "U", "V", "W", "X", "Y", "Z">>
LOWERCASE == <<"a", "b", "c", "d", "e", "f", "g", "h", "i", "j", "k", "l", "m",
               "n", "o", "p", "q", "r", "s", "t", "u", "v", "w", "x", "y", "z">>
DIGITS == <<"0", "1", "2", "3", "4", "5", "6", "7", "8", "9">>

\* The characters of the inputs in code point order (the order str comparison uses).
CODEPOINTS == <<"\n", " ", "!", ",", "-", ".", "/">> \o DIGITS \o <<":">> \o UPPERCASE
              \o <<"[", "]", "_">> \o LOWERCASE

Range(seq) == { seq[i] : i \in 1..Len(seq) }

\* The position of each character in CODEPOINTS, and the case mappings.
CodeOf  == [c \in Range(CODEPOINTS) |-> CHOOSE i \in 1..Len(CODEPOINTS) : CODEPOINTS[i] = c]
LowerOf == [c \in Range(UPPERCASE) |-> LOWERCASE[CHOOSE i \in 1..26 : UPPERCASE[i] = c]]
UpperOf == [c \in Range(LOWERCASE) |-> UPPERCASE[CHOOSE i \in 1..26 : LOWERCASE[i] = c]]
DigitOf == [c \in Range(DIGITS) |-> (CHOOSE i \in 1..10 : DIGITS[i] = c) - 1]

IsDigit(c) == c \in DOMAIN DigitOf                                         \* \d
IsSpace(c) == c \in {" ", "\n"}                                            \* \s, str.strip()
IsWord(c)  == c \in DOMAIN DigitOf \cup DOMAIN LowerOf \cup DOMAIN UpperOf \cup {"_"}   \* \w
DigitVal(c) == DigitOf[c]

LowerChar(c) == IF c \in DOMAIN LowerOf THEN LowerOf[c] ELSE c
UpperChar(c) == IF c \in DOMAIN UpperOf THEN UpperOf[c] ELSE c
lower(s) == [i \in 1..Len(s) |-> LowerChar(s[i])]
upper(s) == [i \in 1..Len(s) |-> UpperChar(s[i])]

\* s[a..b] (1-based, inclusive); empty when b < a.
Slice(s, a, b) == IF b < a THEN <<>> ELSE SubSeq(s, a, b)

\* lit occurs in s at position i.
StartsAt(s, i, lit) ==
    /\ i >= 1
    /\ i + Len(lit) - 1 <= Len(s)
    /\ \A k \in 1..Len(lit) : s[i + k - 1] = lit[k]

\* The same under re.IGNORECASE, for a lower case lit.
StartsAtIgnoreCase(s, i, lit) ==
    /\ i >= 1
    /\ i + Len(lit) - 1 <= Len(s)
    /\ \A k \in 1..Len(lit) : LowerChar(s[i + k - 1]) = lit[k]

\* Length of the run of digits of s that starts at position i.
RECURSIVE DigitRun(_, _)
DigitRun(s, i) == IF i <= Len(s) /\ IsDigit(s[i]) THEN 1 + DigitRun(s, i + 1) ELSE 0

\* Length of the run of whitespace of s that starts at position i.
RECURSIVE SpaceRun(_, _)
SpaceRun(s, i) == IF i <= Len(s) /\ IsSpace(s[i]) THEN 1 + SpaceRun(s, i + 1) ELSE 0

\* Length of the run of whitespace of s that ends at position i.
RECURSIVE SpaceRunBack(_, _)
SpaceRunBack(s, i) == IF i >= 1 /\ IsSpace(s[i]) THEN 1 + SpaceRunBack(s, i - 1) ELSE 0

\* int(text) of the first n characters of a string of ASCII digits.
RECURSIVE IntOf(_, _)
IntOf(s, n) == IF n = 0 THEN 0 ELSE 10 * IntOf(s, n - 1) + DigitVal(s[n])
int(s) == IntOf(s, Len(s))

\* str.strip()
lstrip(s) == Slice(s, 1 + SpaceRun(s, 1), Len(s))
rstrip(s) == Slice(s, 1, Len(s) - SpaceRunBack(s, Len(s)))
strip(s) == rstrip(lstrip(s))

\* str < str from position i on: code point order, a proper prefix first.
RECURSIVE StrLessFrom(_, _, _)
StrLessFrom(a, b, i) ==
    IF i > Len(b) THEN FALSE
    ELSE IF i > Len(a) THEN TRUE
    ELSE IF a[i] = b[i] THEN StrLessFrom(a, b, i + 1)
    ELSE CodeOf[a[i]] < CodeOf[b[i]]
StrLess(a, b) == StrLessFrom(a, b, 1)

\* str(n) for n >= 0, and the zero padding of "%02d" and "%04d".
RECURSIVE Itoa(_)
Itoa(n) == IF n < 10 THEN <<DIGITS[n + 1]>> ELSE Itoa(n \div 10) \o <<DIGITS[(n % 10) + 1]>>
RECURSIVE ZeroPad(_, _)
ZeroPad(s, width) == IF Len(s) >= width THEN s ELSE ZeroPad(<<"0">> \o s, width)

(***************************************************************************)
(* Calendar (datetime.date)                                                *)
(***************************************************************************)
IsLeap(y) == y % 4 = 0 /\ (y % 100 # 0 \/ y % 400 = 0)
DaysInMonth(y, m) ==
    IF m = 2 THEN (IF IsLeap(y) THEN 29 ELSE 28)
    ELSE IF m \in {4, 6, 9, 11} THEN 30 ELSE 31
DaysBeforeYear(y) == (y - 1) * 365 + (y - 1) \div 4 - (y - 1) \div 100 + (y - 1) \div 400
RECURSIVE DaysBeforeMonth(_, _)
DaysBeforeMonth(y, m) == IF m = 1 THEN 0 ELSE DaysBeforeMonth(y, m - 1) + DaysInMonth(y, m - 1)

\* date(y, m, d) is a date (otherwise the constructor raises ValueError).
ValidYmd(y, m, d) ==
    /\ y \in 1..9999
    /\ m \in 1..12
    /\ d \in 1..DaysInMonth(y, m)

\* date(y, m, d).toordinal()
ToOrdinal(y, m, d) == DaysBeforeYear(y) + DaysBeforeMonth(y, m) + d

\* The month and the day of the day number r (from 0) of the year, from the
\* library's estimate of the month, which is exact or one too large.
MonthDay(year, r, est) ==
    IF DaysBeforeMonth(year, est) > r
    THEN <<year, est - 1, r - DaysBeforeMonth(year, est - 1) + 1>>
    ELSE <<year, est, r - DaysBeforeMonth(year, est) + 1>>

\* date.fromordinal(n), as <<year, month, day>>: the library's division of the
\* ordinal into 400-, 100-, 4- and 1-year cycles.
FromOrdinal(n) ==
    LET n400 == (n - 1) \div 146097
        n100 == ((n - 1) % 146097) \div 36524
        n4   == (((n - 1) % 146097) % 36524) \div 1461
        n1   == ((((n - 1) % 146097) % 36524) % 1461) \div 365
        r1   == ((((n - 1) % 146097) % 36524) % 1461) % 365
    IN  IF n1 = 4 \/ n100 = 4
        THEN <<n400 * 400 + n100 * 100 + n4 * 4 + n1, 12, 31>>
        ELSE MonthDay(n400 * 400 + 1 + n100 * 100 + n4 * 4 + n1, r1, (r1 + 50) \div 32)

\* "%04d-%02d-%02d" % (year, month, day)
IsoText(ymd) ==
    ZeroPad(Itoa(ymd[1]), 4) \o <<"-">> \o ZeroPad(Itoa(ymd[2]), 2)
    \o <<"-">> \o ZeroPad(Itoa(ymd[3]), 2)

\* date.isoformat()
isoformat(n) == IsoText(FromOrdinal(n))

(***************************************************************************)
(* The patterns of the script.  A position in a text is a cursor; the      *)
(* cursor 0 says that the match has failed.                                *)
(***************************************************************************)
NoMatch == [ok |-> FALSE]

\* The literal lit at the cursor p: the cursor behind it.
Lit(s, p, lit) == IF p # 0 /\ StartsAt(s, p, lit) THEN p + Len(lit) ELSE 0

\* The cursor behind a run of n characters at p when lo <= n <= hi.
Behind(p, n, lo, hi) == IF n >= lo /\ n <= hi THEN p + n ELSE 0

\* \d{lo,hi} at the cursor p, followed by something that is no digit: the
\* group matches exactly when the whole run of digits has an allowed length.
Digits(s, p, lo, hi) == IF p = 0 THEN 0 ELSE Behind(p, DigitRun(s, p), lo, hi)

\* \s+ at the cursor p, followed by something that is no whitespace.
Spaces(s, p) == IF p = 0 THEN 0 ELSE Behind(p, SpaceRun(s, p), 1, Len(s))

\* First position j >= i at which lit occurs in s, 0 when there is none or i is 0.
RECURSIVE FindFrom(_, _, _)
FindFrom(s, i, lit) ==
    IF i = 0 \/ i + Len(lit) - 1 > Len(s) THEN 0
    ELSE IF StartsAt(s, i, lit) THEN i
    ELSE FindFrom(s, i + 1, lit)

\* One pattern of LINE_PATS; the two differ in what precedes the date (open)
\* and what follows the time (close):
\*   ^open(?P<d>\d{1,2}/\d{1,2}/\d{2,4}), (?P<t>\d{1,2}:\d{2})close(?P<name>.*?): (?P<msg>.*)$
\* The cursors behind the date, at the time, behind the time, at the name and
\* at the ": " that ends the lazy name.
DateEnd(s, open) ==
    Digits(s, Lit(s, Digits(s, Lit(s, Digits(s, Lit(s, 1, open), 1, 2), <<"/">>), 1, 2), <<"/">>), 2, 4)
TimeStart(s, open) == Lit(s, DateEnd(s, open), <<",", " ">>)
TimeEnd(s, open) == Digits(s, Lit(s, Digits(s, TimeStart(s, open), 1, 2), <<":">>), 2, 2)
NameStart(s, open, close) == Lit(s, TimeEnd(s, open), close)
NameEnd(s, open, close) == FindFrom(s, NameStart(s, open, close), <<":", " ">>)

\* The groups of a match, the message being the rest of the line.
Groups(s, d0, d1, t0, t1, n0, n1) ==
    IF n1 = 0 THEN NoMatch
    ELSE [ok |-> TRUE, d |-> Slice(s, d0, d1 - 1), t |-> Slice(s, t0, t1 - 1),
          name |-> Slice(s, n0, n1 - 1), msg |-> Slice(s, n1 + 2, Len(s))]

LinePat(s, open, close) ==
    Groups(s, Len(open) + 1, DateEnd(s, open), TimeStart(s, open), TimeEnd(s, open),
           NameStart(s, open, close), NameEnd(s, open, close))

\* The first pattern that matches wins.
FirstMatch(first, s, open, close) == IF first.ok THEN first ELSE LinePat(s, open, close)
LINE_PATS(s) == FirstMatch(LinePat(s, <<>>, <<" ", "-", " ">>), s, <<"[">>, <<"]", " ">>)

\* WORDLE_PAT.match at position i of msg:
\*   \bWordle\s+(?P<puzzle>\d+)\s+(?P<result>([1-6]/6|X/6))   (IGNORECASE)
\* The cursors at the puzzle number, behind it and at the result.
PuzzleStart(msg, i) ==
    Spaces(msg, IF /\ (i = 1 \/ ~IsWord(msg[i - 1]))
                   /\ StartsAtIgnoreCase(msg, i, <<"w", "o", "r", "d", "l", "e">>)
                THEN i + 6 ELSE 0)
PuzzleEnd(msg, i) == Digits(msg, PuzzleStart(msg, i), 1, Len(msg))
ResultStart(msg, i) == Spaces(msg, PuzzleEnd(msg, i))

WordleGroups(msg, p0, p1, r) ==
    IF /\ r # 0
       /\ r + 2 <= Len(msg)
       /\ (msg[r] \in {"1", "2", "3", "4", "5", "6"} \/ LowerChar(msg[r]) = "x")
       /\ msg[r + 1] = "/" /\ msg[r + 2] = "6"
    THEN [ok |-> TRUE, puzzle |-> Slice(msg, p0, p1 - 1), result |-> Slice(msg, r, r + 2)]
    ELSE NoMatch

WordleAt(msg, i) ==
    WordleGroups(msg, PuzzleStart(msg, i), PuzzleEnd(msg, i), ResultStart(msg, i))

\* WORDLE_PAT.search(msg): the match at the leftmost position that has one.
RECURSIVE WordleFrom(_, _)
WordleFrom(msg, i) ==
    IF i > Len(msg) THEN NoMatch
    ELSE IF WordleAt(msg, i).ok THEN WordleAt(msg, i)
    ELSE WordleFrom(msg, i + 1)
WORDLE_PAT(msg) == WordleFrom(msg, 1)

\* The fields of text between the occurrences of the one-character separator.
RECURSIVE Fields(_, _, _)
Fields(text, sepc, i) ==
    IF FindFrom(text, i, <<sepc>>) = 0 THEN <<Slice(text, i, Len(text))>>
    ELSE <<Slice(text, i, FindFrom(text, i, <<sepc>>) - 1)>>
         \o Fields(text, sepc, FindFrom(text, i, <<sepc>>) + 1)

AllDigits(f) == f # <<>> /\ \A i \in 1..Len(f) : IsDigit(f[i])

Raised == [raised |-> TRUE]
Returned(v) == [raised |-> FALSE, value |-> v]

\* The year a field of digits stands for: %Y reads four digits, %y two (00..68
\* are 2000..2068, 69..99 are 1969..1999).
YearOf(f, century) ==
    IF century THEN int(f) ELSE IF int(f) <= 68 THEN 2000 + int(f) ELSE 1900 + int(f)

\* The date of the fields of the directives %Y or %y, %m and %d, when each
\* directive accepts its field and the three make a date.
DateOf(fy, fm, fd, century) ==
    IF /\ AllDigits(fy) /\ Len(fy) = (IF century THEN 4 ELSE 2)
       /\ AllDigits(fm) /\ Len(fm) <= 2 /\ int(fm) \in 1..12
       /\ AllDigits(fd) /\ Len(fd) <= 2 /\ int(fd) \in 1..31
       /\ ValidYmd(YearOf(fy, century), int(fm), int(fd))
    THEN Returned(ToOrdinal(YearOf(fy, century), int(fm), int(fd)))
    ELSE Raised

\* The order of the fields under each format.
FieldsDate(f, fmt) ==
    IF Len(f) # 3 THEN Raised
    ELSE IF fmt = "Ymd" THEN DateOf(f[1], f[2], f[3], TRUE)
    ELSE IF fmt = "dmY" THEN DateOf(f[3], f[2], f[1], TRUE)
    ELSE IF fmt = "dmy" THEN DateOf(f[3], f[2], f[1], FALSE)
    ELSE IF fmt = "mdY" THEN DateOf(f[3], f[1], f[2], TRUE)
    ELSE DateOf(f[3], f[1], f[2], FALSE)

\* datetime.strptime(text, fmt).date() for the date formats of the script:
\*   "dmY" %d/%m/%Y   "dmy" %d/%m/%y   "mdY" %m/%d/%Y   "mdy" %m/%d/%y   "Ymd" %Y-%m-%d
strptime_date(text, fmt) == FieldsDate(Fields(text, IF fmt = "Ymd" THEN "-" ELSE "/", 1), fmt)

\* datetime.strptime(t_str, "%H:%M").time(), as the minute of the day.
FieldsTime(f) ==
    IF /\ Len(f) = 2
       /\ AllDigits(f[1]) /\ Len(f[1]) <= 2 /\ int(f[1]) <= 23
       /\ AllDigits(f[2]) /\ Len(f[2]) <= 2 /\ int(f[2]) <= 59
    THEN Returned(int(f[1]) * 60 + int(f[2]))
    ELSE Raised
strptime_time(t_str) == FieldsTime(Fields(t_str, ":", 1))

\* The first format of fmts, from position i on, that parses d_str.
RECURSIVE FirstDate(_, _, _)
FirstDate(d_str, fmts, i) ==
    IF i > Len(fmts) THEN Raised
    ELSE IF ~strptime_date(d_str, fmts[i]).raised THEN strptime_date(d_str, fmts[i])
    ELSE FirstDate(d_str, fmts, i + 1)

\* datetime.combine(d, tm), unless the date or the time raised.
Combine(d, tm) == IF d.raised \/ tm.raised THEN Raised ELSE Returned(<<d.value, tm.value>>)

parse_dt(d_str, t_str, dmy) ==
    Combine(FirstDate(d_str, IF dmy THEN <<"dmY", "dmy", "mdY", "mdy">>
                                    ELSE <<"mdY", "mdy", "dmY", "dmy">>, 1),
            strptime_time(t_str))

\* datetime < datetime
DtLess(a, b) == a[1] < b[1] \/ (a[1] = b[1] /\ a[2] < b[2])

\* Fault variant of ScoreUpper: 6 - guesses in place of 7 - guesses.
ScoreUpperSixMinus(r) ==
    IF StartsAt(r, 1, <<"X", "/">>) THEN 1
    ELSE IF /\ Len(r) >= 3
            /\ r[1] \in {"1", "2", "3", "4", "5", "6"}
            /\ r[2] = "/" /\ r[3] = "6"
         THEN 2 * (6 - DigitVal(r[1]))
    ELSE 0

\* Points in halves: 0.5 is 1 and 7 - guesses is 2 * (7 - guesses).
ScoreUpper(r) ==
    IF StartsAt(r, 1, <<"X", "/">>) THEN 1
    ELSE IF /\ Len(r) >= 3
            /\ r[1] \in {"1", "2", "3", "4", "5", "6"}
            /\ r[2] = "/" /\ r[3] = "6"
         THEN 2 * (7 - DigitVal(r[1]))
    ELSE 0
score_from_result(result) == ScoreUpper(upper(result))

\* fmt_pts: the integer when the points are whole, else one decimal.
fmt_pts(x) ==
    IF x % 2 = 0 THEN Itoa(x \div 2) ELSE Itoa(x \div 2) \o <<".", "5">>

safe_name(s) == strip(s)

\* re.split(r"[,\n]+", text) from position i on: the parts between the runs of
\* commas and newlines.
IsSep(c) == c \in {",", "\n"}
RECURSIVE PartEnd(_, _)
PartEnd(text, i) == IF i <= Len(text) /\ ~IsSep(text[i]) THEN PartEnd(text, i + 1) ELSE i
RECURSIVE SepEnd(_, _)
SepEnd(text, i) == IF i <= Len(text) /\ IsSep(text[i]) THEN SepEnd(text, i + 1) ELSE i
RECURSIVE SplitFrom(_, _)
SplitFrom(text, i) ==
    IF PartEnd(text, i) > Len(text) THEN <<Slice(text, i, Len(text))>>
    ELSE <<Slice(text, i, PartEnd(text, i) - 1)>> \o SplitFrom(text, SepEnd(text, PartEnd(text, i)))

\* The stripped parts that are not empty and that strptime reads as %Y-%m-%d,
\* as they were typed.
ValidParts(parts) ==
    { p \in { strip(parts[i]) : i \in 1..Len(parts) } :
          p # <<>> /\ ~strptime_date(p, "Ymd").raised }

parse_double_dates(text) == ValidParts(SplitFrom(strip(text), 1))

week_date_range(season_start, week_num) ==
    <<season_start + (week_num - 1) * 7, season_start + (week_num - 1) * 7 + 6>>

puzzle_for_day(start_date, start_puzzle, d) == start_puzzle + (d - start_date)

\* Fault variant of day_for_puzzle: the day after.
day_for_puzzle_next(start_date, start_puzzle, puzzle) == start_date + (puzzle - start_puzzle) + 1

day_for_puzzle(start_date, start_puzzle, puzzle) == start_date + (puzzle - start_puzzle)

(***************************************************************************)
(* Inputs: the settings of the form and the lines of the uploaded export   *)
(***************************************************************************)
MaxWeeks == 2          \* season_weeks ranges over 1..MaxWeeks (the form allows 1..52)

Alice == <<"A", "l", "i", "c", "e">>
alice == <<"a", "l", "i", "c", "e">>
Bob   == <<"B", "o", "b">>
Wordle == <<"W", "o", "r", "d", "l", "e">>

Jan(day) == ToOrdinal(2026, 1, day)

\* The export's text of a date, day first, and of a time of day.
DayFirstText(ymd) ==
    ZeroPad(Itoa(ymd[3]), 2) \o <<"/">> \o ZeroPad(Itoa(ymd[2]), 2) \o <<"/">> \o Itoa(ymd[1])
DateText(n) == DayFirstText(FromOrdinal(n))
TimeText(h, m) == ZeroPad(Itoa(h), 2) \o <<":">> \o ZeroPad(Itoa(m), 2)

DashLine(d, t, name, msg) ==
    d \o <<",", " ">> \o t \o <<" ", "-", " ">> \o name \o <<":", " ">> \o msg
BracketLine(d, t, name, msg) ==
    <<"[">> \o d \o <<",", " ">> \o t \o <<"]", " ">> \o name \o <<":", " ">> \o msg
Share(word, puzzle, result) == word \o <<" ">> \o puzzle \o <<" ">> \o result

\* The line of the thousands separator: 12/01/2026, 08:15 - Alice: Wordle 1,689 3/6
SeparatorLine ==
    DashLine(DateText(Jan(12)), TimeText(8, 15), Alice,
             Share(Wordle, <<"1", ",", "6", "8", "9">>, <<"3", "/", "6">>))

\* Lines whose time has seconds, one in each line shape.
SecondsLines ==
    { BracketLine(DateText(Jan(12)), TimeText(8, 15) \o <<":", "3", "0">>, Bob,
                  Share(Wordle, Itoa(1689), <<"4", "/", "6">>)),
      DashLine(DateText(Jan(12)), TimeText(8, 14) \o <<":", "5", "9">>, Bob,
               Share(Wordle, Itoa(1689), <<"1", "/", "6">>)) }

\* Alice's first submission for puzzle 1689 and her later one:
\*   12/01/2026, 08:15 - Alice: Wordle 1689 3/6
\*   12/01/2026, 09:00 - Alice: Wordle 1689 2/6
EarlyLine ==
    DashLine(DateText(Jan(12)), TimeText(8, 15), Alice, Share(Wordle, Itoa(1689), <<"3", "/", "6">>))
LateLine ==
    DashLine(DateText(Jan(12)), TimeText(9, 0), Alice, Share(Wordle, Itoa(1689), <<"2", "/", "6">>))

\* A line whose date is no date: 31/02/2026, 08:15 - Bob: Wordle 1689 1/6
NoDateLine ==
    DashLine(<<"3", "1", "/", "0", "2", "/", "2", "0", "2", "6">>, TimeText(8, 15), Bob,
             Share(Wordle, Itoa(1689), <<"1", "/", "6">>))

\* A chat of the first season day: results in both line shapes, repeated
\* submissions at other times, and lines that are no result at all.
ChatLines ==
    { SeparatorLine, EarlyLine, LateLine, NoDateLine,
      BracketLine(DateText(Jan(12)), TimeText(8, 15), Bob,
                  Share(lower(Wordle), Itoa(1689), <<"x", "/", "6">>)),
      DashLine(DateText(Jan(12)), TimeText(8, 16), Bob, Share(Wordle, Itoa(1689), <<"6", "/", "6">>)),
      DashLine(DateText(Jan(12)), TimeText(25, 0), Bob, Share(Wordle, Itoa(1689), <<"1", "/", "6">>)),
      DashLine(DateText(Jan(12)), TimeText(8, 20), Bob, <<"n", "i", "c", "e", " ", "o", "n", "e">>),
      <<"a", "n", "d", " ", "m", "o", "r", "e">>,
      DashLine(<<"1", "3", "/", "0", "1", "/", "2", "6">>, TimeText(7, 5), alice \o <<" ">>,
               <<"m", "y", " ">> \o Share(Wordle, <<" ">> \o Itoa(1690), <<" ", "5", "/", "6", "!">>)),
      DashLine(<<"1", "/", "1", "3", "/", "2", "0", "2", "6">>, TimeText(7, 4), alice,
               Share(Wordle, Itoa(1690), <<"X", "/", "6">>)) }
    \cup SecondsLines

\* A season's chat: Alice on each of seven consecutive puzzles, Bob on the first
\* of them and on the puzzle a week later.
SeasonLines ==
    { DashLine(DateText(Jan(12 + i)), TimeText(8, 15), Alice,
               Share(Wordle, Itoa(1689 + i), <<DIGITS[(i % 6) + 2], "/", "6">>)) : i \in 0..6 }
    \cup
    { DashLine(DateText(Jan(12)), TimeText(9, 30), Bob, Share(Wordle, Itoa(1689), <<"1", "/", "6">>)),
      BracketLine(DateText(Jan(19)), TimeText(7, 0), Bob, Share(Wordle, Itoa(1696), <<"x", "/", "6">>)) }

\* The lines the uploaded export is made of.
lines == IF uploaded = "chat" THEN ChatLines ELSE SeasonLines

\* The texts typed into the double points field.
DoubleTexts ==
    { <<>>,
      <<"2", "0", "2", "6", "-", "0", "1", "-", "1", "3">>,
      <<"2", "0", "2", "6", "-", "1", "-", "1", "2">> \o <<",", " ">>
         \o <<"2", "0", "2", "6", "-", "0", "1", "-", "1", "9">> \o <<"\n">>
         \o <<"2", "0", "2", "6", "-", "0", "2", "-", "3", "0">> }

\* The (season start date, puzzle number on the start date) pairs of the form.
Anchors == { <<Jan(12), 1689>>, <<Jan(5), 1689>>, <<Jan(12), 1682>> }

(***************************************************************************)
(* The run                                                                 *)
(***************************************************************************)
\* The value of a setting that nothing has read yet.
Open == "open"

\* The script reads the form before it parses, but the parse loop reads no
\* setting other than prefer_dmy: the other settings are left open until the
\* scoring reads them, so that the parse states are not multiplied by settings
\* they do not depend on.  The season's chat is read day first.
Init ==
    /\ pc = "parse"
    /\ uploaded \in {"chat", "season"}
    /\ prefer_dmy \in (IF uploaded = "chat" THEN BOOLEAN ELSE {TRUE})
    /\ season_start_date = Open
    /\ season_start_puzzle = Open
    /\ season_weeks = Open
    /\ report_week = Open
    /\ double_dates = Open
    /\ line = <<>>
    /\ first_sub = <<>>
    /\ all_players = {}
    /\ players = <<>>
    /\ week_points = <<>>
    /\ season_points = <<>>
    /\ missing_week = <<>>
    /\ week_ranked = <<>>
    /\ season_ranked = <<>>
    /\ out = <<>>
    /\ recorded = {}

\* What the loop body makes of a line before it reaches the ledger: `continue`
\* (no event), an exception that leaves the loop and ends the run, or a result
\* event.
Continue == [ok |-> FALSE, escaped |-> FALSE]
Escaped  == [ok |-> FALSE, escaped |-> TRUE]

\* Lines 160-165 on the match m of a line pattern and the timestamp dt:
\* `continue` without a result token, else the name, puzzle, timestamp and result.
Tagged(m, dt, wm) ==
    IF ~wm.ok THEN Continue
    ELSE [ok |-> TRUE, escaped |-> FALSE, name |-> safe_name(m.name),
          puzzle |-> int(wm.puzzle), dt |-> dt.value, result |-> upper(wm.result)]

\* Fault variant of Stamped: the ValueError of parse_dt is not caught.
StampedUncaught(m, dt) ==
    IF dt.raised THEN Escaped ELSE Tagged(m, dt, WORDLE_PAT(strip(m.msg)))

\* Lines 153-158: the ValueError of parse_dt is caught, and the loop continues.
Stamped(m, dt) ==
    IF dt.raised THEN Continue ELSE Tagged(m, dt, WORDLE_PAT(strip(m.msg)))

\* Lines 145-151: `continue` when no line pattern matches.
Matched(m, dmy) ==
    IF ~m.ok THEN Continue ELSE Stamped(m, parse_dt(m.d, m.t, dmy))

\* The result event of the line l, if it has one.
Event(l, dmy) == Matched(LINE_PATS(l), dmy)

\* Event, tabulated over the lines of the inputs.
EventOf == [l \in ChatLines \cup SeasonLines |-> [dmy \in BOOLEAN |-> Event(l, dmy)]]

\* Fault variant of Record: the event is stored whatever its timestamp.
RecordLast(fs, e) ==
    [k \in DOMAIN fs \cup {<<e.name, e.puzzle>>} |->
        IF k = <<e.name, e.puzzle>> THEN <<e.dt, e.result>> ELSE fs[k]]

\* Lines 167-172: the ledger after the event e.
Record(fs, e) ==
    IF <<e.name, e.puzzle>> \notin DOMAIN fs \/ DtLess(e.dt, fs[<<e.name, e.puzzle>>][1])
    THEN [k \in DOMAIN fs \cup {<<e.name, e.puzzle>>} |->
             IF k = <<e.name, e.puzzle>> THEN <<e.dt, e.result>> ELSE fs[k]]
    ELSE fs

\* The body of `for line in lines` on a line of which the lines before the
\* ledger make e: a `continue` leaves the ledger and the player set as they are.
LoopBody(e, fs, ap) ==
    IF ~e.ok THEN [first_sub |-> fs, all_players |-> ap]
    ELSE [first_sub |-> Record(fs, e), all_players |-> ap \cup {e.name}]

\* One iteration of the loop.  An exception that leaves the loop body would
\* end the run before any report.
ParseLine ==
    /\ pc = "parse"
    /\ \E l \in lines : \E e \in {EventOf[l][prefer_dmy]} :
       \E after \in {LoopBody(e, first_sub, all_players)} :
        /\ line' = l
        /\ pc' = IF e.escaped THEN "stopped" ELSE "parse"
        /\ first_sub' = after.first_sub
        /\ all_players' = after.all_players
        /\ recorded' = IF e.ok THEN recorded \cup {e} ELSE recorded
    /\ UNCHANGED <<prefer_dmy, season_start_date, season_start_puzzle, season_weeks,
                   report_week, double_dates, uploaded, players, week_points,
                   season_points, missing_week, week_ranked, season_ranked, out>>

\* The orders in which iterating over the set S may yield its elements (the
\* iteration order of a set of str is not fixed).
Orders(S) == { f \in [1..Cardinality(S) -> S] : \A i, j \in 1..Cardinality(S) : f[i] = f[j] => i = j }

\* The sequence that has seq[i] at the place places[i].
Arrange(seq, places) ==
    [p \in 1..Len(seq) |-> seq[CHOOSE i \in 1..Len(seq) : places[i] = p]]

\* sorted(seq, key), where before is the set of the pairs <<a, b>> with
\* key(a) < key(b).  The sort is stable: an element comes behind the elements
\* whose key is smaller and behind the elements of equal key that precede it
\* in seq.
sorted(seq, before) ==
    Arrange(seq, [i \in 1..Len(seq) |->
                     1 + Cardinality({ j \in 1..Len(seq) :
                             \/ <<seq[j], seq[i]>> \in before
                             \/ j < i /\ <<seq[i], seq[j]>> \notin before })])

\* key=lambda s: s.lower()
NameBefore(a, b) == StrLess(lower(a), lower(b))

\* Fault variant of RankBefore: ties broken by the name as it is written.
RankBeforeCased(points, a, b) ==
    \/ points[a] > points[b]
    \/ points[a] = points[b] /\ StrLess(a, b)

\* key=lambda pl: (-points[pl], pl.lower())
RankBefore(points, a, b) ==
    \/ points[a] > points[b]
    \/ points[a] = points[b] /\ StrLess(lower(a), lower(b))

\* Fault variant of season_days: the season without its last week.
season_days_short(weeks) == (weeks - 1) * 7

season_days(weeks) == weeks * 7
season_dates(start_date, weeks) == [i \in 1..season_days(weeks) |-> start_date + (i - 1)]
season_puzzles(start_date, start_puzzle, weeks) ==
    [i \in 1..season_days(weeks) |->
        puzzle_for_day(start_date, start_puzzle, season_dates(start_date, weeks)[i])]

\* Fault variant of week_puzzles: the seven puzzles from the season start.
week_puzzles_first(start_date, start_puzzle, week) ==
    [i \in 1..7 |-> puzzle_for_day(start_date, start_puzzle, start_date + (i - 1))]

week_dates(start_date, week) == [i \in 1..7 |-> week_date_range(start_date, week)[1] + (i - 1)]
week_puzzles(start_date, start_puzzle, week) ==
    [i \in 1..7 |-> puzzle_for_day(start_date, start_puzzle, week_dates(start_date, week)[i])]

\* isoformat, tabulated over the days around the seasons of the inputs.
IsoOf == [n \in (Jan(1) - 31)..(Jan(31) + 7 * MaxWeeks) |-> isoformat(n)]

\* 2.0 or 1.0
multiplier_for_puzzle(start_date, start_puzzle, doubles, puz) ==
    IF IsoOf[day_for_puzzle(start_date, start_puzzle, puz)] \in doubles THEN 2 ELSE 1

\* What the loops at lines 194-208 add to a total of pl for the puzzle puz:
\* the score of the entry times the multiplier of the puzzle, nothing without
\* an entry.
Points(fs, pl, puz, mult) ==
    IF <<pl, puz>> \in DOMAIN fs THEN score_from_result(fs[<<pl, puz>>][2]) * mult ELSE 0

\* The total of pl over the first n puzzles of the list.
RECURSIVE Total(_, _, _, _, _, _, _)
Total(fs, pl, puzzles, n, start_date, start_puzzle, doubles) ==
    IF n = 0 THEN 0
    ELSE Total(fs, pl, puzzles, n - 1, start_date, start_puzzle, doubles)
         + Points(fs, pl, puzzles[n],
                  multiplier_for_puzzle(start_date, start_puzzle, doubles, puzzles[n]))

\* missing_week[pl]: the puzzles of the list without an entry, in its order.
Missing(fs, pl, puzzles) == SelectSeq(puzzles, LAMBDA puz : <<pl, puz>> \notin DOMAIN fs)

\* Lines 174-211 under the settings of the form, pls being the players in name
\* order: the totals, the missing puzzles and the two rankings.
ScoreWith(start_date, start_puzzle, weeks, week, doubles, pls) ==
    /\ season_start_date' = start_date
    /\ season_start_puzzle' = start_puzzle
    /\ season_weeks' = weeks
    /\ report_week' = week
    /\ double_dates' = doubles
    /\ players' = pls
    /\ season_points' =
          [pl \in all_players |->
              Total(first_sub, pl, season_puzzles(start_date, start_puzzle, weeks),
                    season_days(weeks), start_date, start_puzzle, doubles)]
    /\ week_points' =
          [pl \in all_players |->
              Total(first_sub, pl, week_puzzles(start_date, start_puzzle, week), 7,
                    start_date, start_puzzle, doubles)]
    /\ missing_week' =
          [pl \in all_players |->
              Missing(first_sub, pl, week_puzzles(start_date, start_puzzle, week))]
    /\ week_ranked' = sorted(pls, { k \in Range(pls) \X Range(pls) : RankBefore(week_points', k[1], k[2]) })
    /\ season_ranked' = sorted(pls, { k \in Range(pls) \X Range(pls) : RankBefore(season_points', k[1], k[2]) })

\* The end of the lines: the loop variable is dead once the loop is over.
Score ==
    /\ pc = "parse"
    /\ pc' = "render"
    /\ line' = <<>>
    /\ \E text \in DoubleTexts : \E doubles \in {parse_double_dates(text)} :
       \E pls \in { sorted(order, { k \in all_players \X all_players : NameBefore(k[1], k[2]) })
                        : order \in Orders(all_players) } :
       \E a \in Anchors, weeks \in 1..MaxWeeks : \E week \in 1..weeks :
          ScoreWith(a[1], a[2], weeks, week, doubles, pls)
    /\ UNCHANGED <<prefer_dmy, uploaded, first_sub, all_players, out, recorded>>

\* The lines of a ranking: "{i}. {pl}: {fmt_pts(points[pl])}".
RankLines(ranked, points) ==
    [i \in 1..Len(ranked) |-> <<"rank", i, ranked[i], fmt_pts(points[ranked[i]])>>]

\* The lines "- {pl}: {missing puzzles}" of the players that miss a puzzle.
MissingLines(with_missing) ==
    [i \in 1..Len(with_missing) |-> <<"-", with_missing[i], missing_week[with_missing[i]]>>]

\* The dates of the week that are double dates, as ISO text.
double_days_in_week ==
    SelectSeq([i \in 1..7 |-> IsoOf[week_dates(season_start_date, report_week)[i]]],
              LAMBDA iso : iso \in double_dates)

\* Lines 215-236: the output block, one tuple of the parts of a line per line.
Block(w, doubled, with_missing) ==
    <<<<"week", report_week, isoformat(w[1]), isoformat(w[2])>>>>
    \o (IF doubled # <<>> THEN <<<<"double", doubled>>>> ELSE <<>>)
    \o <<<<"">>, <<"weekly">>>>
    \o RankLines(week_ranked, week_points)
    \o <<<<"">>, <<"season", 1, report_week>>>>
    \o RankLines(season_ranked, season_points)
    \o <<<<"">>, <<"missing">>>>
    \o MissingLines(with_missing)
    \o (IF with_missing = <<>> THEN <<<<"none">>>> ELSE <<>>)

Render ==
    /\ pc = "render"
    /\ pc' = "done"
    /\ out' = Block(week_date_range(season_start_date, report_week), double_days_in_week,
                    SelectSeq(players, LAMBDA pl : missing_week[pl] # <<>>))
    /\ UNCHANGED <<prefer_dmy, season_start_date, season_start_puzzle, season_weeks,
                   report_week, double_dates, uploaded, line, first_sub, all_players,
                   players, week_points, season_points, missing_week, week_ranked,
                   season_ranked, recorded>>

Next == ParseLine \/ Score \/ Render

Spec == Init /\ [][Next]_vars
\* The runs on each of the two uploads.
InitChat == Init /\ uploaded = "chat"
InitSeason == Init /\ uploaded = "season"
SpecChat == InitChat /\ [][Next]_vars
SpecSeason == InitSeason /\ [][Next]_vars

(***************************************************************************)
(* Properties                                                              *)
(***************************************************************************)
Reported == pc \in {"render", "done"}

\* Timestamps as minutes, for the comparisons of the properties.
Minutes(dt) == dt[1] * 1440 + dt[2]

\* The events recorded for the ledger key k.
EventsOf(k) == { e \in recorded : <<e.name, e.puzzle>> = k }

\* C1: the ledger has exactly the keys of the recorded result events, and the
\* entry of a key is the timestamp and result of a recorded event of that key
\* whose timestamp is the minimum of the timestamps recorded for the key, in
\* whatever order the events were recorded.
C1_LedgerKeepsEarliest ==
    /\ DOMAIN first_sub = { <<e.name, e.puzzle>> : e \in recorded }
    /\ \A k \in DOMAIN first_sub :
        /\ \E e \in EventsOf(k) : first_sub[k] = <<e.dt, e.result>>
        /\ \A e \in EventsOf(k) : Minutes(first_sub[k][1]) <= Minutes(e.dt)

\* Alice's 08:15 line has just been read after her 09:00 line had been recorded,
\* and the ledger holds the 3/6 of 08:15.
C1_Witness ==
    /\ pc = "parse"
    /\ line = EarlyLine
    /\ \E e \in recorded : e.name = Alice /\ e.puzzle = 1689 /\ e.result = <<"2", "/", "6">>
    /\ <<Alice, 1689>> \in DOMAIN first_sub
    /\ first_sub[<<Alice, 1689>>][2] = <<"3", "/", "6">>

\* The sum over the days a..b of what the entry of pl for the puzzle of the day
\* is worth: its score, twice on a day whose ISO date is a double date.
RECURSIVE SumDays(_, _, _)
SumDays(pl, a, b) ==
    IF b < a THEN 0
    ELSE SumDays(pl, a, b - 1)
         + (IF <<pl, season_start_puzzle + (b - season_start_date)>> \in DOMAIN first_sub
            THEN score_from_result(first_sub[<<pl, season_start_puzzle + (b - season_start_date)>>][2])
                 * (IF IsoOf[b] \in double_dates THEN 2 ELSE 1)
            ELSE 0)

\* C2: the season total of every player is the sum over the days from the
\* season start to the end of the report week.
C2_SeasonThroughReportWeek ==
    pc = "done" =>
        \A pl \in all_players :
            season_points[pl] = SumDays(pl, season_start_date, season_start_date + report_week * 7 - 1)

\* C3: for every day of the season the multiplier found through the puzzle
\* number of the day is the multiplier of the day itself (2 on a double date,
\* else 1), and the week total and the season total of every player are the
\* sums, over the days of the report week and over the days the season total
\* adds up, of the score of the day's entry times the multiplier of the day.
C3_DoubleDatesDouble ==
    pc = "done" =>
        /\ \A d \in season_start_date..(season_start_date + season_weeks * 7 - 1) :
              multiplier_for_puzzle(season_start_date, season_start_puzzle, double_dates,
                                    puzzle_for_day(season_start_date, season_start_puzzle, d))
              = (IF IsoOf[d] \in double_dates THEN 2 ELSE 1)
        /\ \A pl \in all_players :
            /\ week_points[pl] = SumDays(pl, season_start_date + (report_week - 1) * 7,
                                         season_start_date + report_week * 7 - 1)
            /\ season_points[pl] = SumDays(pl, season_start_date,
                                           season_start_date + season_weeks * 7 - 1)

\* A report in which a player has an entry for a double date of the report week.
C3_Witness ==
    /\ pc = "done"
    /\ \E pl \in all_players :
       \E d \in (season_start_date + (report_week - 1) * 7)..(season_start_date + report_week * 7 - 1) :
          /\ IsoOf[d] \in double_dates
          /\ <<pl, season_start_puzzle + (d - season_start_date)>> \in DOMAIN first_sub
          /\ week_points[pl] > 0

\* C4: once the line `12/01/2026, 08:15 - Alice: Wordle 1,689 3/6` has been
\* read day first, the ledger has Alice's entry for puzzle 1689, the puzzle
\* of day 0 under the anchor (2026-01-12, 1689), worth 4 points.
C4_SeparatorLineScored ==
    (pc = "parse" /\ prefer_dmy /\ line = SeparatorLine) =>
        /\ <<Alice, puzzle_for_day(Jan(12), 1689, Jan(12))>> \in DOMAIN first_sub
        /\ Points(first_sub, Alice, puzzle_for_day(Jan(12), 1689, Jan(12)), 1) = 8

\* Name a before name b, case folded.
FoldedBefore(a, b) == StrLess(lower(a), lower(b))

\* r lists every player once, a higher total first and, among equal totals,
\* never a name behind one that is later case folded.
IsRanking(r, points) ==
    /\ Len(r) = Cardinality(all_players)
    /\ Range(r) = all_players
    /\ \A i, j \in 1..Len(r) :
          i < j => \/ points[r[i]] > points[r[j]]
                   \/ points[r[i]] = points[r[j]] /\ ~FoldedBefore(r[j], r[i])

\* C5: the week ranking and the season ranking are permutations of the player
\* set, by descending total and, for equal totals, by case folded name.
C5_RankingsOrdered ==
    Reported => IsRanking(week_ranked, week_points) /\ IsRanking(season_ranked, season_points)

\* A week ranking in which two players tie and the case folded order of their
\* names is not the order of the names as written, and two players differ.
C5_Witness ==
    /\ pc = "done"
    /\ \E i, j \in 1..Len(week_ranked) :
          /\ i < j
          /\ week_points[week_ranked[i]] = week_points[week_ranked[j]]
          /\ StrLess(week_ranked[j], week_ranked[i])
    /\ \E i, j \in 1..Len(week_ranked) : week_points[week_ranked[i]] > week_points[week_ranked[j]]

\* The puzzles of the report week, and those of them pl has no entry for.
ReportWeekPuzzles == { season_start_puzzle + (report_week - 1) * 7 + k : k \in 0..6 }
MissingOf(pl) == { puz \in ReportWeekPuzzles : <<pl, puz>> \notin DOMAIN first_sub }

\* The lines of the block with the tag.
Tagged_lines(tag) == { i \in 1..Len(out) : out[i][1] = tag }

\* C6: the missing list of every player is, in ascending order, exactly the
\* report week's puzzles the player has no entry for; the block lists exactly
\* the players that miss a puzzle, each with its list, and has the "none"
\* line if and only if no player misses a puzzle of the report week.
C6_MissingExact ==
    pc = "done" =>
        /\ \A pl \in all_players :
            /\ Range(missing_week[pl]) = MissingOf(pl)
            /\ \A i, j \in 1..Len(missing_week[pl]) :
                  i < j => missing_week[pl][i] < missing_week[pl][j]
        /\ { <<out[i][2], out[i][3]>> : i \in Tagged_lines("-") }
           = { <<pl, missing_week[pl]>> : pl \in { q \in all_players : MissingOf(q) # {} } }
        /\ (Tagged_lines("none") # {}) <=> (\A pl \in all_players : MissingOf(pl) = {})

\* A report in which a player submitted on six of the seven days of the week.
C6_Witness ==
    /\ pc = "done"
    /\ \E pl \in all_players : Len(missing_week[pl]) = 1 /\ Cardinality(MissingOf(pl)) = 1

\* The line read leaves the loop at one of its `continue`s: it matches no line
\* pattern, or its date or time does not parse, or its message has no result
\* token.
NoPattern(l) == ~LINE_PATS(l).ok
NoTimestamp(l, dmy) == LINE_PATS(l).ok /\ parse_dt(LINE_PATS(l).d, LINE_PATS(l).t, dmy).raised
NoToken(l) == LINE_PATS(l).ok /\ ~WORDLE_PAT(strip(LINE_PATS(l).msg)).ok
SkippedOf ==
    [l \in ChatLines \cup SeasonLines |->
        [dmy \in BOOLEAN |-> NoPattern(l) \/ NoTimestamp(l, dmy) \/ NoToken(l)]]

\* C7: reading a line that matches no line pattern, whose date or time does
\* not parse, or whose message has no result token leaves the ledger and the
\* player set as they were, and the loop goes on to the next line.
C7_SkippedLinesChangeNothing ==
    [][(pc = "parse" /\ pc' # "render" /\ SkippedOf[line'][prefer_dmy])
          => (pc' = "parse" /\ first_sub' = first_sub /\ all_players' = all_players)]_vars

\* The line whose date is no date has just been read into a ledger that has
\* entries, and the loop goes on.
C7_Witness ==
    /\ pc = "parse"
    /\ line = NoDateLine
    /\ first_sub # <<>>
    /\ all_players # {}

\* C8: once a line of a known shape whose time has seconds and whose message
\* has a result token has been read, the ledger has an entry for its sender
\* and puzzle.
C8_SecondsLineRecorded ==
    (pc = "parse" /\ line \in SecondsLines) => <<Bob, 1689>> \in DOMAIN first_sub

\* C9: every ledger entry is X/6, worth 0.5 points, or g/6 with g in 1..6,
\* worth 7 - g points; none is worth 0 points.
C9_ScoreOfEntries ==
    \A k \in DOMAIN first_sub :
        /\ \/ first_sub[k][2] = <<"X", "/", "6">> /\ score_from_result(first_sub[k][2]) = 1
           \/ \E g \in 1..6 :
                 /\ first_sub[k][2] = <<DIGITS[g + 1], "/", "6">>
                 /\ score_from_result(first_sub[k][2]) = 2 * (7 - g)
        /\ score_from_result(first_sub[k][2]) # 0

\* A ledger with a failed entry and entries solved in one and in six guesses.
C9_Witness ==
    /\ \E k \in DOMAIN first_sub : first_sub[k][2] = <<"X", "/", "6">>
    /\ \E k \in DOMAIN first_sub : first_sub[k][2] = <<"1", "/", "6">>
    /\ \E k \in DOMAIN first_sub : first_sub[k][2] = <<"6", "/", "6">>

\* C10: the week total of every player is at least 0 and at most the season
\* total of the player.
C10_WeekWithinSeason ==
    Reported =>
        \A pl \in all_players : 0 <= week_points[pl] /\ week_points[pl] <= season_points[pl]

\* A report of the second week in which a player has points in the week and
\* more in the season.
C10_Witness ==
    /\ pc = "done"
    /\ report_week = 2
    /\ \E pl \in all_players : week_points[pl] > 0 /\ season_points[pl] > week_points[pl]

====
